---- MODULE Spec2Model ----
(***************************************************************************)
(* Butterfly evaluators of inference.py: butterfly_mul_np,                 *)
(* butterfly_mul_cy, butterfly_mul_cy_inplace,                             *)
(* butterfly_mul_cy_inplace_generic and BP_mul_cy_inplace.                 *)
(*                                                                         *)
(* One behaviour is one call.  Arrays live in a heap of flat (C-order)     *)
(* buffers, and the names of the code (input_, output, buffer) hold buffer *)
(* ids, so that a view (reshape of a contiguous array, output = input_)    *)
(* shares its buffer and a copy does not.  Element values are integers:    *)
(* float32 rounding is not modelled, the arithmetic is exact.              *)
(***************************************************************************)
EXTENDS Integers, Sequences, FiniteSets

VARIABLES fn, dtype, ABCDs, perm, batch_size, n, heap, written,
          output, buffer, i, pc, result, err, applied, lin

vars == <<fn, dtype, ABCDs, perm, batch_size, n, heap, written,
          output, buffer, i, pc, result, err, applied, lin>>

(* ------------------------------ bounds --------------------------------- *)
\* n ranges over 2^1 .. 2^MaxLog, a factor's trailing dimension over 2^0 .. 2^(MaxLog-1)
MaxLog == 2
\* batch_size ranges over 1 .. MaxBatch
MaxBatch == 2
\* a factor list holds 0 .. MaxFactors factors
MaxFactors == 2

RECURSIVE Pow2(_)
Pow2(k) == IF k = 0 THEN 1 ELSE 2 * Pow2(k - 1)

RECURSIVE Log2(_)
Log2(k) == IF k <= 1 THEN 0 ELSE 1 + Log2(k \div 2)

Dims == {Pow2(k) : k \in 1..MaxLog}
Widths == {Pow2(k) : k \in 0..(MaxLog - 1)}

(* ------------------------------ factors -------------------------------- *)
\* A factor is the array ABCD of shape (2, 2, m): ABCD[i][j][c], 1-based here.
Swap(m) == << << [c \in 1..m |-> 0], [c \in 1..m |-> 1] >>,
              << [c \in 1..m |-> 1], [c \in 1..m |-> 0] >> >>

\* every entry different: A[c] = c, B[c] = c + 1, C[c] = c + 2, D[c] = c + 3
Ramp(m) == << << [c \in 1..m |-> c],     [c \in 1..m |-> c + 1] >>,
              << [c \in 1..m |-> c + 2], [c \in 1..m |-> c + 3] >> >>

Factors == {Swap(m) : m \in Widths} \cup {Ramp(m) : m \in Widths}

RECURSIVE SeqsUpTo(_, _)
SeqsUpTo(S, k) ==
    IF k = 0 THEN {<< >>}
    ELSE LET shorter == SeqsUpTo(S, k - 1)
         IN  shorter \cup {Append(s, e) : s \in {t \in shorter : Len(t) = k - 1}, e \in S}

FactorLists == SeqsUpTo(Factors, MaxFactors)

\* ABCD.shape[-1]
LastDim(ABCD) == Len(ABCD[1][1])

(* ------------------------------ batches -------------------------------- *)
\* A batch of shape (batch_size, n) is its flat C-order buffer of batch_size * n values.
Iota(len) == [p \in 1..len |-> p]
OneHot(len, k) == [p \in 1..len |-> IF p = k THEN 1 ELSE 0]
Batches(len) == {Iota(len)} \cup {OneHot(len, k) : k \in 1..len}

\* a * x + b * y, elementwise
LinComb(a, x, b, y) == [p \in 1..Len(x) |-> a * x[p] + b * y[p]]

(* ---------------------------- permutations ----------------------------- *)
\* perm[j], 0-based values as in the code, stored at position j + 1
Rotation(len, s) == [j \in 1..len |-> (j - 1 + s) % len]
Reversal(len) == [j \in 1..len |-> len - j]
\* the identity, a rotation (not its own inverse for len > 2) and the reversal
Perms(len) == {Rotation(len, 0), Rotation(len, 1), Reversal(len)}

(* --------------------------- array operations -------------------------- *)
\* ABCDs[::-1]: position k of the reversed list is position len - k + 1 of the list
ReversedForward(len, k) == k
ReversedIndex(len, k) == len - k + 1

\* output.reshape(output.shape[:-1] + (-1, 1, 2, m)) of an array of shape
\* (batch_size, n): numpy raises ValueError unless 2m divides the row length
NpReshapeOk(rowlen, m) == rowlen % (2 * m) = 0

\* output.reshape((-1, 2, m)): numpy raises ValueError unless 2m divides the size
FlatReshapeOk(size, m) == size % (2 * m) = 0

\* element [b, t, 0, j, c] (0-based) of the view of shape (batch_size, n/2m, 1, 2, m)
NpView(buf, rowlen, m, b, t, j, c) == buf[b * rowlen + t * 2 * m + j * m + c + 1]

\* element [b, t, i, j, c] of ABCD * output: ABCD (2, 2, m) broadcast against
\* (batch_size, n/2m, 1, 2, m)
NpProduct(ABCD, buf, rowlen, b, t, i_, j, c) ==
    ABCD[i_ + 1][j + 1][c + 1] * NpView(buf, rowlen, LastDim(ABCD), b, t, j, c)

\* the sum taken over axis -3 (the row index of the 2x2 block) instead of axis -2
NpMulSumAxis3(ABCD, buf, rowlen) ==
    LET m == LastDim(ABCD)
    IN  [p \in 1..Len(buf) |->
            LET b == (p - 1) \div rowlen
                t == ((p - 1) % rowlen) \div (2 * m)
                j == (((p - 1) % rowlen) % (2 * m)) \div m
                c == (p - 1) % m
            IN  NpProduct(ABCD, buf, rowlen, b, t, 0, j, c)
                + NpProduct(ABCD, buf, rowlen, b, t, 1, j, c)]

\* the view taken with the pair index fastest, shape (.., m, 2): adjacent elements paired
NpMulSumAdjacent(ABCD, buf, rowlen) ==
    LET m == LastDim(ABCD)
    IN  [p \in 1..Len(buf) |->
            LET blk == (p - 1) \div (2 * m)
                c == ((p - 1) % (2 * m)) \div 2
                i_ == (p - 1) % 2
            IN  ABCD[i_ + 1][1][c + 1] * buf[blk * 2 * m + 2 * c + 1]
                + ABCD[i_ + 1][2][c + 1] * buf[blk * 2 * m + 2 * c + 2]]

\* ABCD + output in place of ABCD * output
NpMulSumPlus(ABCD, buf, rowlen) ==
    LET m == LastDim(ABCD)
    IN  [p \in 1..Len(buf) |->
            LET b == (p - 1) \div rowlen
                t == ((p - 1) % rowlen) \div (2 * m)
                i_ == (((p - 1) % rowlen) % (2 * m)) \div m
                c == (p - 1) % m
            IN  (ABCD[i_ + 1][1][c + 1] + NpView(buf, rowlen, m, b, t, 0, c))
                + (ABCD[i_ + 1][2][c + 1] + NpView(buf, rowlen, m, b, t, 1, c))]

\* (ABCD * output).sum(axis=-2).reshape(input_.shape), as a flat buffer:
\* element [b, t, i, c] is the sum over j of element [b, t, i, j, c] of the product
NpMulSum(ABCD, buf, rowlen) ==
    LET m == LastDim(ABCD)
    IN  [p \in 1..Len(buf) |->
            LET b == (p - 1) \div rowlen
                t == ((p - 1) % rowlen) \div (2 * m)
                i_ == (((p - 1) % rowlen) % (2 * m)) \div m
                c == (p - 1) % m
            IN  NpProduct(ABCD, buf, rowlen, b, t, i_, 0, c)
                + NpProduct(ABCD, buf, rowlen, b, t, i_, 1, c)]

\* ABCD_mult(ABCD, src, dst): the contents written to dst, for src of shape (N, 2, m)
ABCD_mult(ABCD, src) ==
    LET m == LastDim(ABCD)
    IN  [p \in 1..Len(src) |->
            LET t == (p - 1) \div (2 * m)
                i_ == ((p - 1) % (2 * m)) \div m
                c == (p - 1) % m
            IN  ABCD[i_ + 1][1][c + 1] * src[t * 2 * m + c + 1]
                + ABCD[i_ + 1][2][c + 1] * src[t * 2 * m + m + c + 1]]

\* ABCD_mult_inplace(ABCD, buf) and ABCD_mult_inplace_generic(ABCD, buf): the
\* contents of buf afterwards; both elements of a pair are read before either is written
ABCD_mult_inplace(ABCD, buf) ==
    LET m == LastDim(ABCD)
        lo(t, c) == buf[t * 2 * m + c + 1]
        hi(t, c) == buf[t * 2 * m + m + c + 1]
    IN  [p \in 1..Len(buf) |->
            LET t == (p - 1) \div (2 * m)
                c == (p - 1) % m
            IN  IF ((p - 1) % (2 * m)) < m
                THEN ABCD[1][1][c + 1] * lo(t, c) + ABCD[1][2][c + 1] * hi(t, c)
                ELSE ABCD[2][1][c + 1] * lo(t, c) + ABCD[2][2][c + 1] * hi(t, c)]

\* out[perm[j]] = in[j]: a scatter in place of the gather
FancyIndexScatter(buf, p_, rowlen) ==
    [q \in 1..Len(buf) |->
        LET r == (q - 1) \div rowlen
            j == CHOOSE k \in 1..rowlen : p_[k] = (q - 1) % rowlen
        IN  buf[r * rowlen + j]]

\* input_[..., perm]: a new array with element [r, j] = input_[r, perm[j]]
FancyIndex(buf, p_, rowlen) ==
    [q \in 1..Len(buf) |->
        LET r == (q - 1) \div rowlen
            j == (q - 1) % rowlen
        IN  buf[r * rowlen + p_[j + 1] + 1]]

\* output, buffer = output, buffer: the swap left out
CySwapNone(o, b) == <<o, b>>
\* output, buffer = buffer, output
CySwap(o, b) == <<b, o>>

(* ------------------------------- state --------------------------------- *)
\* fn: the evaluator called; dtype: input_.dtype (a complex64 input is tried
\* with one batch: its values play no part in the asserts); ABCDs, perm: its arguments;
\* (batch_size, n): input_.shape; heap[InputId]: the caller's input_ array;
\* written: the buffers whose every element has been assigned;
\* output, buffer: the locals of the code (buffer ids, 0 before assignment);
\* i: the position of the for loop in ABCDs[::-1]; result: the returned array;
\* err: the exception that left the call; applied: the positions in ABCDs of the
\* factors applied so far, in order; lin: the caller's operands, input_ being
\* lin.a * lin.x + lin.b * lin.y.
Fns == {"butterfly_mul_np", "butterfly_mul_cy", "butterfly_mul_cy_inplace",
        "butterfly_mul_cy_inplace_generic", "BP_mul_cy_inplace"}
Dtypes == {"float32", "complex64"}
\* what np.empty may hand out
JunkVals == {0, 7}

InputId == 1
Size == batch_size * n

InitWith(Operands, Dts) ==
    /\ fn \in Fns
    /\ dtype \in Dts
    /\ ABCDs \in FactorLists
    /\ batch_size \in 1..MaxBatch
    /\ n \in Dims
    /\ perm \in (IF fn = "BP_mul_cy_inplace" THEN Perms(n) ELSE {<< >>})
    /\ lin \in Operands[batch_size * n, n]
    /\ dtype = "complex64" => lin.x = Iota(batch_size * n)
    /\ heap = << LinComb(lin.a, lin.x, lin.b, lin.y) >>
    /\ written = {InputId}
    /\ output = 0
    /\ buffer = 0
    /\ i = 0
    /\ pc = "call"
    /\ result = 0
    /\ err = "none"
    /\ applied = << >>

\* the caller passes a batch x of the family as it is
Plain(len) == {[x |-> x, y |-> x, a |-> 1, b |-> 0] : x \in Batches(len)}

\* the caller passes a * x + b * y: x a unit vector of the first row, y dense
Scalars == {<<1, 1>>, <<3, -2>>}
Combined(len, rowlen) == {[x |-> OneHot(len, k), y |-> Iota(len), a |-> s[1], b |-> s[2]] :
                            k \in 1..rowlen, s \in Scalars}

Lens == {b * d : b \in 1..MaxBatch, d \in Dims}
Init == InitWith([len \in Lens, rowlen \in Dims |-> Plain(len)], Dtypes)
InitLin == InitWith([len \in Lens, rowlen \in Dims |-> Combined(len, rowlen)], {"float32"})

\* the factor the loop is at, and its position in ABCDs
Position == ReversedIndex(Len(ABCDs), i)
Current == ABCDs[Position]
InLoop(f) == fn = f /\ pc = "loop" /\ i <= Len(ABCDs)
AtEnd(f) == fn = f /\ pc = "loop" /\ i > Len(ABCDs)

Raise(e) ==
    /\ pc' = "raised"
    /\ err' = e
    /\ UNCHANGED <<fn, dtype, ABCDs, perm, batch_size, n, heap, written,
                   output, buffer, i, result, applied, lin>>

\* return output.reshape(input_.shape): a view of output's buffer (for
\* butterfly_mul_np, return output)
Return ==
    /\ result' = output
    /\ pc' = "done"
    /\ UNCHANGED <<fn, dtype, ABCDs, perm, batch_size, n, heap, written,
                   output, buffer, i, err, applied, lin>>

(* --------------------------- butterfly_mul_np -------------------------- *)
\* output = input_
NpBegin ==
    /\ fn = "butterfly_mul_np" /\ pc = "call"
    /\ output' = InputId
    /\ i' = 1
    /\ pc' = "loop"
    /\ UNCHANGED <<fn, dtype, ABCDs, perm, batch_size, n, heap, written,
                   buffer, result, err, applied, lin>>

\* one pass of the loop: the reshape, then the product summed into a new array
NpIter ==
    /\ InLoop("butterfly_mul_np")
    /\ IF NpReshapeOk(n, LastDim(Current))
       THEN /\ heap' = Append(heap, NpMulSum(Current, heap[output], n))
            /\ written' = written \cup {Len(heap) + 1}
            /\ output' = Len(heap) + 1
            /\ applied' = Append(applied, Position)
            /\ i' = i + 1
            /\ UNCHANGED <<fn, dtype, ABCDs, perm, batch_size, n, buffer, pc,
                           result, err, lin>>
       ELSE Raise("ValueError")

NpReturn == AtEnd("butterfly_mul_np") /\ Return

(* --------------------------- butterfly_mul_cy -------------------------- *)
\* assert input_.dtype == np.float32; output = input_.copy();
\* buffer = np.empty(input_.size, dtype=np.float32)
CyBegin ==
    /\ fn = "butterfly_mul_cy" /\ pc = "call"
    /\ IF dtype = "float32"
       THEN \E junk \in JunkVals :
            /\ heap' = heap \o << heap[InputId], [p \in 1..Size |-> junk] >>
            /\ written' = written \cup {Len(heap) + 1}
            /\ output' = Len(heap) + 1
            /\ buffer' = Len(heap) + 2
            /\ i' = 1
            /\ pc' = "loop"
            /\ UNCHANGED <<fn, dtype, ABCDs, perm, batch_size, n, result, err,
                           applied, lin>>
       ELSE Raise("AssertionError")

\* one pass of the loop: both reshapes, ABCD_mult(ABCD, output, buffer), the swap
CyIter ==
    /\ InLoop("butterfly_mul_cy")
    /\ IF FlatReshapeOk(Size, LastDim(Current))
       THEN /\ heap' = [heap EXCEPT ![buffer] = ABCD_mult(Current, heap[output])]
            /\ written' = written \cup {buffer}
            /\ output' = CySwap(output, buffer)[1]
            /\ buffer' = CySwap(output, buffer)[2]
            /\ applied' = Append(applied, Position)
            /\ i' = i + 1
            /\ UNCHANGED <<fn, dtype, ABCDs, perm, batch_size, n, pc, result,
                           err, lin>>
       ELSE Raise("ValueError")

CyReturn == AtEnd("butterfly_mul_cy") /\ Return

(* ------------- the in-place evaluators: one loop, three callers -------- *)
\* output = output.reshape((-1, 2, ABCD.shape[-1])); ABCD_mult_inplace(ABCD, output)
InplaceIter(f) ==
    /\ InLoop(f)
    /\ IF FlatReshapeOk(Size, LastDim(Current))
       THEN /\ heap' = [heap EXCEPT ![output] = ABCD_mult_inplace(Current, heap[output])]
            /\ applied' = Append(applied, Position)
            /\ i' = i + 1
            /\ UNCHANGED <<fn, dtype, ABCDs, perm, batch_size, n, written,
                           output, buffer, pc, result, err, lin>>
       ELSE Raise("ValueError")

\* output = a new array holding contents
BeginWith(contents) ==
    /\ heap' = Append(heap, contents)
    /\ written' = written \cup {Len(heap) + 1}
    /\ output' = Len(heap) + 1
    /\ i' = 1
    /\ pc' = "loop"
    /\ UNCHANGED <<fn, dtype, ABCDs, perm, batch_size, n, buffer, result, err,
                   applied, lin>>

\* output = input_ in place of output = input_.copy()
CyInplaceBeginAlias ==
    /\ fn = "butterfly_mul_cy_inplace" /\ pc = "call"
    /\ IF dtype = "float32"
       THEN /\ output' = InputId
            /\ i' = 1
            /\ pc' = "loop"
            /\ UNCHANGED <<fn, dtype, ABCDs, perm, batch_size, n, heap, written,
                           buffer, result, err, applied, lin>>
       ELSE Raise("AssertionError")

\* assert input_.dtype == np.float32; output = input_.copy()
CyInplaceBegin ==
    /\ fn = "butterfly_mul_cy_inplace" /\ pc = "call"
    /\ IF dtype = "float32" THEN BeginWith(heap[InputId]) ELSE Raise("AssertionError")

CyInplaceIter == InplaceIter("butterfly_mul_cy_inplace")
CyInplaceReturn == AtEnd("butterfly_mul_cy_inplace") /\ Return

\* output = input_.copy(), with no assert on the dtype
GenericBegin ==
    /\ fn = "butterfly_mul_cy_inplace_generic" /\ pc = "call"
    /\ BeginWith(heap[InputId])

GenericIter == InplaceIter("butterfly_mul_cy_inplace_generic")
GenericReturn == AtEnd("butterfly_mul_cy_inplace_generic") /\ Return

\* assert input_.dtype == np.float32; output = input_[..., perm]
BPBegin ==
    /\ fn = "BP_mul_cy_inplace" /\ pc = "call"
    /\ IF dtype = "float32"
       THEN BeginWith(FancyIndex(heap[InputId], perm, n))
       ELSE Raise("AssertionError")

BPIter == InplaceIter("BP_mul_cy_inplace")
BPReturn == AtEnd("BP_mul_cy_inplace") /\ Return

Next ==
    \/ NpBegin \/ NpIter \/ NpReturn
    \/ CyBegin \/ CyIter \/ CyReturn
    \/ CyInplaceBegin \/ CyInplaceIter \/ CyInplaceReturn
    \/ GenericBegin \/ GenericIter \/ GenericReturn
    \/ BPBegin \/ BPIter \/ BPReturn

Spec == Init /\ [][Next]_vars
SpecLin == InitLin /\ [][Next]_vars

(* ------------------------- reference semantics ------------------------- *)
\* F[1](F[2](.. F[k](x))), each factor by the block formula on the flat buffer
RECURSIVE FlatChain(_, _)
FlatChain(F, x) == IF F = << >> THEN x ELSE ABCD_mult(Head(F), FlatChain(Tail(F), x))

\* the same composition with the in-place primitive
RECURSIVE InplaceChain(_, _)
InplaceChain(F, x) ==
    IF F = << >> THEN x ELSE ABCD_mult_inplace(Head(F), InplaceChain(Tail(F), x))

\* the same composition by the row-wise product and sum of butterfly_mul_np
RECURSIVE RowChain(_, _, _)
RowChain(F, x, rowlen) ==
    IF F = << >> THEN x ELSE NpMulSum(Head(F), RowChain(Tail(F), x, rowlen), rowlen)

\* the last k factors of the list: those applied after k passes of the loop
LastFactors(k) == SubSeq(ABCDs, Len(ABCDs) - k + 1, Len(ABCDs))

\* every factor's 2m divides the row length n
Valid == \A k \in 1..Len(ABCDs) : n % (2 * LastDim(ABCDs[k])) = 0

\* permute(x, perm)[r, j] = x[r, perm[j]]
Permute(x, p_) == [q \in 1..Len(x) |-> x[((q - 1) \div n) * n + p_[((q - 1) % n) + 1] + 1]]

Ended == pc \in {"done", "raised"}
NoPerm == fn # "BP_mul_cy_inplace"

(* -------------------------------- C1 ----------------------------------- *)
\* C1: butterfly_mul_np with one factor of shape (2, 2, m) returns, for every
\* block t of 2m consecutive elements and every column c,
\* out[t,0,c] = A[c]*in[t,0,c] + B[c]*in[t,1,c] and
\* out[t,1,c] = C[c]*in[t,0,c] + D[c]*in[t,1,c]: a function of block t alone.
C1_SingleFactorFormula ==
    (pc = "done" /\ fn = "butterfly_mul_np" /\ Len(ABCDs) = 1) =>
        LET m == LastDim(ABCDs[1])
            A == ABCDs[1][1][1]
            B == ABCDs[1][1][2]
            C == ABCDs[1][2][1]
            D == ABCDs[1][2][2]
            in == heap[InputId]
            out == heap[result]
        IN  /\ Size % (2 * m) = 0
            /\ Len(out) = Size
            /\ \A t \in 0..((Size \div (2 * m)) - 1) : \A c \in 1..m :
                /\ out[t * 2 * m + c] = A[c] * in[t * 2 * m + c] + B[c] * in[t * 2 * m + m + c]
                /\ out[t * 2 * m + m + c] = C[c] * in[t * 2 * m + c] + D[c] * in[t * 2 * m + m + c]

C1_Witness ==
    /\ pc = "done" /\ fn = "butterfly_mul_np" /\ ABCDs = << Ramp(2) >>
    /\ batch_size = 2 /\ n = 4 /\ heap[InputId] = Iota(8)

(* -------------------------------- C2 ----------------------------------- *)
\* C2: every evaluator applies the factors in reverse list order, the last of
\* the list first and the first last, each once: after j passes the factors
\* applied are ABCDs[k], ABCDs[k-1], .., ABCDs[k-j+1], and the returned array
\* is F0(F1(.. Fk-1(x))).
C2_ReverseOrder ==
    /\ Len(applied) <= Len(ABCDs)
    /\ \A j \in 1..Len(applied) : applied[j] = Len(ABCDs) - j + 1
    /\ pc = "done" =>
        /\ Len(applied) = Len(ABCDs)
        /\ heap[result] = FlatChain(ABCDs, IF NoPerm THEN heap[InputId]
                                           ELSE Permute(heap[InputId], perm))

\* a finished call on two factors that do not commute on this input
C2_Witness ==
    /\ pc = "done" /\ Len(ABCDs) = 2
    /\ fn = "butterfly_mul_cy_inplace"
    /\ FlatChain(ABCDs, heap[InputId]) # FlatChain(<<ABCDs[2], ABCDs[1]>>, heap[InputId])
    /\ heap[result] = FlatChain(ABCDs, heap[InputId])

(* -------------------------------- C3 ----------------------------------- *)
\* C3: on a valid factor sequence butterfly_mul_np, butterfly_mul_cy,
\* butterfly_mul_cy_inplace and butterfly_mul_cy_inplace_generic return the
\* same output: each returns the row-wise composition and the flat-buffer
\* composition of the factors, which agree, and none fails on a reshape.
C3_CrossPathEquivalence ==
    (Valid /\ NoPerm) =>
        /\ pc = "done" =>
            /\ heap[result] = RowChain(ABCDs, heap[InputId], n)
            /\ heap[result] = FlatChain(ABCDs, heap[InputId])
            /\ heap[result] = InplaceChain(ABCDs, heap[InputId])
        /\ pc = "raised" => err = "AssertionError"

C3_Witness ==
    /\ pc = "done" /\ fn = "butterfly_mul_cy" /\ Valid
    /\ batch_size = 2 /\ n = 4 /\ ABCDs = << Ramp(2), Ramp(1) >>
    /\ heap[InputId] = Iota(8)

(* -------------------------------- C4 ----------------------------------- *)
\* C4: no step of any evaluator changes the caller's input array or a factor.
C4_CallerDataUnchanged ==
    [][heap'[InputId] = heap[InputId] /\ ABCDs' = ABCDs]_vars

\* the in-place primitive has written its working buffer
C4_Witness ==
    /\ pc = "done" /\ fn = "butterfly_mul_cy_inplace" /\ Len(ABCDs) = 2
    /\ heap[result] # heap[InputId]

(* -------------------------------- C5 ----------------------------------- *)
\* C5: BP_mul_cy_inplace(F, perm, x) is butterfly_mul_cy_inplace(F, permute(x, perm)):
\* the loop starts from permute(x, perm), the call returns the in-place
\* composition of the factors on it, and it fails on a reshape exactly when
\* butterfly_mul_cy_inplace does.
C5_PermThenEvaluate ==
    (fn = "BP_mul_cy_inplace" /\ dtype = "float32") =>
        /\ (pc = "loop" /\ i = 1) => heap[output] = Permute(heap[InputId], perm)
        /\ pc = "done" =>
            /\ heap[result] = InplaceChain(ABCDs, Permute(heap[InputId], perm))
            /\ \A k \in 1..Len(ABCDs) : FlatReshapeOk(Size, LastDim(ABCDs[k]))
        /\ pc = "raised" =>
            /\ err = "ValueError"
            /\ \E k \in 1..Len(ABCDs) : ~FlatReshapeOk(Size, LastDim(ABCDs[k]))

\* a rotation is not its own inverse
C5_Witness ==
    /\ pc = "done" /\ fn = "BP_mul_cy_inplace" /\ perm = Rotation(4, 1)
    /\ batch_size = 2 /\ ABCDs = << Ramp(2), Swap(1) >>
    /\ heap[InputId] = Iota(8)

(* -------------------------------- C6 ----------------------------------- *)
\* C6: a call on a non-empty factor list whose number of factors differs from
\* log2(n) fails and returns no output.
C6_InconsistentFactorsFail ==
    (ABCDs # << >> /\ Len(ABCDs) # Log2(n)) => pc # "done"

(* -------------------------------- C7 ----------------------------------- *)
\* C7: with no factors every evaluator returns the input's values in an array
\* that is not the caller's input array.
C7_EmptyReturnsFreshCopy ==
    (pc = "done" /\ ABCDs = << >> /\ NoPerm) =>
        /\ heap[result] = heap[InputId]
        /\ result # InputId

(* -------------------------------- C8 ----------------------------------- *)
\* what the evaluator called returns on the batch x
Evaluate(x) ==
    IF fn = "butterfly_mul_np" THEN RowChain(ABCDs, x, n)
    ELSE IF fn = "butterfly_mul_cy" THEN FlatChain(ABCDs, x)
    ELSE IF fn = "BP_mul_cy_inplace" THEN InplaceChain(ABCDs, Permute(x, perm))
    ELSE InplaceChain(ABCDs, x)

\* C8: evaluate(F, a*x + b*y) = a*evaluate(F, x) + b*evaluate(F, y).
C8_Linearity ==
    pc = "done" =>
        heap[result] = LinComb(lin.a, Evaluate(lin.x), lin.b, Evaluate(lin.y))

C8_Witness ==
    /\ pc = "done" /\ fn = "butterfly_mul_np" /\ Len(ABCDs) = 2
    /\ lin.a = 3 /\ lin.b = -2 /\ lin.x = OneHot(8, 3) /\ lin.y = Iota(8)
    /\ ABCDs = << Ramp(2), Ramp(1) >>

(* -------------------------------- C9 ----------------------------------- *)
\* n = 4, one swap factor with m = 2, x = [[1, 2, 3, 4]], no permutation
SwapScenario ==
    /\ pc = "done" /\ NoPerm
    /\ n = 4 /\ batch_size = 1 /\ ABCDs = << Swap(2) >>
    /\ heap[InputId] = <<1, 2, 3, 4>>

\* C9 as stated: the output is [[2, 1, 4, 3]].
C9_SwapGivesAdjacentPairs == SwapScenario => heap[result] = <<2, 1, 4, 3>>

\* C9 amended: with m = 2 the row is one block whose halves (1, 2) and (3, 4)
\* are exchanged: the output is [[3, 4, 1, 2]].
C9_SwapGivesHalves == SwapScenario => heap[result] = <<3, 4, 1, 2>>

C9_Witness == SwapScenario /\ fn = "butterfly_mul_np"

(* -------------------------------- C10 ---------------------------------- *)
\* C10: in butterfly_mul_cy, at every ABCD_mult call (and at the return) output
\* and buffer are two distinct buffers of input_.size elements, neither the
\* caller's input; output has been written in full and holds the result of the
\* factors applied so far; the array returned is that buffer.
C10_PingPong ==
    (fn = "butterfly_mul_cy" /\ pc \in {"loop", "done"}) =>
        /\ output # buffer
        /\ output # InputId /\ buffer # InputId
        /\ Len(heap[output]) = Size /\ Len(heap[buffer]) = Size
        /\ output \in written
        /\ heap[output] = FlatChain(LastFactors(i - 1), heap[InputId])
        /\ pc = "done" =>
            /\ result = output
            /\ i = Len(ABCDs) + 1
            /\ (buffer \in written <=> Len(ABCDs) > 0)

\* two passes done: the scratch buffer has been a destination, then a source
C10_Witness ==
    /\ fn = "butterfly_mul_cy" /\ pc = "loop" /\ i = 3
    /\ heap[output] # heap[buffer]

====
